---- MODULE Spec2Model ----
(***************************************************************************)
(* A model of the AI Word Daily service: the daily e-mail job of           *)
(* scheduler.py (EmailScheduler), the start-up and shutdown hooks of        *)
(* main.py, the word and subscriber store operations of routers/words.py   *)
(* and routers/users.py, and send_email of email_service.py.               *)
(*                                                                         *)
(* Spec      : the scheduler, its job runner and the steps of a tick.      *)
(* StoreSpec : create/update/publish/unpublish/delete of words, run by     *)
(*             concurrent request handlers, each in its own session.       *)
(* UserSpec  : create/update/delete of subscribers, run the same way.      *)
(* QuerySpec : the read requests get_words, get_monthly_words and          *)
(*             get_calendar_stats over a store of any contents.            *)
(* MailSpec  : the steps of one call of send_email.                        *)
(***************************************************************************)
EXTENDS Integers, Sequences, FiniteSets, TLC

\* ---------------------------------------------------------------- bounds
MaxUsers == 23          \* subscribers in the store of Spec: 0..MaxUsers
NumWords == 2           \* words in the store of Spec and of QuerySpec
MaxDay == 3             \* calendar dates are 1..MaxDay
NumSlots == 2           \* job instances the model can hold at once
MaxId == 2              \* word ids of StoreSpec are 1..MaxId
NumThreads == 2         \* request handlers that run at once
MaxRequests == 2        \* requests served in a run of StoreSpec, UserSpec
NumEmails == 2          \* e-mail addresses of UserSpec are 1..NumEmails
YearMargin == 1         \* years QuerySpec asks for beyond MinYear..MaxYear
MaxRecipients == 3      \* recipients of a call of send_email: 0..MaxRecipients

\* ------------------------------------------------------ program constants
batch_size == 10        \* scheduler.py:81
max_instances == 1      \* scheduler.py:26-33, add_job without max_instances
NoDate == 0             \* models/word.py:16, date_published is NULL
NoWord == 0             \* scheduler.py:50, .first() returned None
MinYear == 2020         \* routers/words.py:169
MaxYear == 2030         \* routers/words.py:169
DefaultLimit == 100     \* routers/words.py:41

Days == 1..MaxDay
Slots == 1..NumSlots
Threads == 1..NumThreads

VARIABLES
    words,        \* the words table: id -> row
    users,        \* the users table, in row order
    clock,        \* the date date.today() returns
    app,          \* the host process: "boot", "up", "down"
    schedState,   \* AsyncIOScheduler: "created", "running", "stopped"
    jobs,         \* number of jobs registered with the scheduler
    tick,         \* per job instance: the locals of send_daily_word_emails
    sessions,     \* number of sessions opened by ticks that are open
    skipped,      \* the job runner skipped a run time (instance limit)
    stopSeen,     \* instances that were executing when stop() returned
    req,          \* per request handler: the request and its session
    nreq,         \* number of requests accepted so far
    reported,     \* the errors main.py has logged: "start", "stop"
    ureq,         \* per request handler: a request of routers/users.py
    q,            \* a read request of routers/words.py and its response
    mail          \* the locals of a call of EmailService.send_email

vars == <<words, users, clock, app, schedState, jobs, tick, sessions,
          skipped, stopSeen, req, nreq, reported, ureq, q, mail>>

sideVars == <<ureq, q, mail>>
storeVars == <<words, users, req, nreq, sideVars>>
schedVars == <<app, schedState, jobs, skipped, stopSeen, reported>>

\* ------------------------------------------------------------- helpers
Min(a, b) == IF a < b THEN a ELSE b

\* Slice with the end index taken as inclusive of one element less.
Slice_short(seq, a, b) == SubSeq(seq, a + 1, Min(b - 1, Len(seq)))

\* Python's seq[a:b] for 0 <= a <= b (0-based, b exclusive, clipped).
Slice(seq, a, b) == SubSeq(seq, a + 1, Min(b, Len(seq)))

\* Python's range(start, stop, step) for step > 0, as a sequence.
RECURSIVE Range(_, _, _)
Range(start, stop, step) ==
    IF start >= stop THEN <<>>
    ELSE <<start>> \o Range(start + step, stop, step)

\* scheduler.py:82
\*   [users[i:i + batch_size] for i in range(0, len(users), batch_size)]
UserBatches(us) ==
    LET starts == Range(0, Len(us), batch_size)
    IN  [k \in 1..Len(starts) |-> Slice(us, starts[k], starts[k] + batch_size)]

\* scheduler.py:50  filter(Word.date_published == today).first()
\* No ORDER BY: the store may return any matching row.
TodayRows(ws, today) == {w \in DOMAIN ws : ws[w].date_published = today}

\* The fallback query ordered ascending instead of descending.
RecentRows_asc(ws) ==
    LET pub == {w \in DOMAIN ws : ws[w].date_published # NoDate}
    IN  {w \in pub : \A v \in pub :
            ws[w].date_published <= ws[v].date_published}

\* scheduler.py:54-56  filter(date_published IS NOT NULL)
\*                     .order_by(date_published DESC).first()
RecentRows(ws) ==
    LET pub == {w \in DOMAIN ws : ws[w].date_published # NoDate}
    IN  {w \in pub : \A v \in pub :
            ws[v].date_published <= ws[w].date_published}

\* The locals of a job instance that has not run.
IdleTick ==
    [pc |-> "idle", db |-> "unbound", today |-> NoDate, word |-> NoWord,
     fetched |-> <<>>, user_batches |-> <<>>, i |-> 0, composed |-> 0,
     sends |-> <<>>, total_sent |-> 0, outcome |-> "none", raised |-> FALSE]

InFlight(s) == tick[s].pc \notin {"idle", "done"}
Running == {s \in Slots : InFlight(s)}

\* ------------------------------------------------- strings and patterns
\* str.lower() on one character.
LowerChar(c) == CASE c = "A" -> "a" [] c = "B" -> "b" [] OTHER -> c

\* str.lower()
lower(str) == [k \in 1..Len(str) |-> LowerChar(str[k])]

RECURSIVE lstrip(_)
lstrip(str) ==
    IF str # <<>> /\ Head(str) = " " THEN lstrip(Tail(str)) ELSE str

RECURSIVE rstrip(_)
rstrip(str) ==
    IF str # <<>> /\ str[Len(str)] = " "
    THEN rstrip(SubSeq(str, 1, Len(str) - 1)) ELSE str

\* str.strip()
strip(str) == rstrip(lstrip(str))

\* SQL LIKE: % matches any run of characters, _ any one character.
RECURSIVE LikeMatch(_, _)
LikeMatch(pat, str) ==
    IF pat = <<>> THEN str = <<>>
    ELSE IF Head(pat) = "%"
         THEN \/ LikeMatch(Tail(pat), str)
              \/ str # <<>> /\ LikeMatch(pat, Tail(str))
    ELSE IF str = <<>> THEN FALSE
    ELSE IF Head(pat) = "_" THEN LikeMatch(Tail(pat), Tail(str))
    ELSE Head(pat) = Head(str) /\ LikeMatch(Tail(pat), Tail(str))

\* Word.term.ilike(pattern): lower(term) LIKE lower(pattern)
ilike(term, pat) == LikeMatch(lower(pat), lower(term))

\* ------------------------------------------------------ request values
\* A term, a difficulty or a date that a request does not set, and an
\* explicit null for them (a null date is NoDate).
UnsetTerm == <<"<unset>">>
NullTerm == <<"<null>">>
UnsetDate == 0 - 1

\* Terms of requests: two cases of a word, a padded one, another word and
\* a wildcard.
Terms == {<<"a">>, <<"A">>, <<" ", "a">>, <<"b">>, <<"_">>}

\* schemas/word_schemas.py:12-19 WordCreate
CreateInputs ==
    {[term |-> t, difficulty |-> "beginner", date_published |-> NoDate] :
        t \in Terms}

\* schemas/word_schemas.py:21-28 WordUpdate, with the fields that are set
UpdateInputs ==
    {[term |-> t, difficulty |-> "unset", date_published |-> UnsetDate] :
        t \in {<<"b">>, <<"_">>, NullTerm}}
    \cup {[term |-> UnsetTerm, difficulty |-> d, date_published |-> UnsetDate] :
        d \in {"expert", "null"}}
    \cup {[term |-> t, difficulty |-> "advanced", date_published |-> 2] :
        t \in {<<"A">>, <<" ", "a">>}}

\* word_update.dict(exclude_unset=True).items(): the fields that are set,
\* in the order of the schema.
FieldOrder == <<"term", "difficulty", "date_published">>

IsSet(upd, f) ==
    CASE f = "term" -> upd.term # UnsetTerm
      [] f = "difficulty" -> upd.difficulty # "unset"
      [] f = "date_published" -> upd.date_published # UnsetDate

RECURSIVE SetFields(_, _)
SetFields(upd, fs) ==
    IF fs = <<>> THEN <<>>
    ELSE (IF IsSet(upd, Head(fs)) THEN <<Head(fs)>> ELSE <<>>)
         \o SetFields(upd, Tail(fs))

update_data(upd) == SetFields(upd, FieldOrder)

\* A handler that serves no request.
IdleReq ==
    [pc |-> "idle", op |-> "none", id |-> 0,
     data |-> [term |-> UnsetTerm, difficulty |-> "unset",
               date_published |-> UnsetDate],
     k |-> 0,
     obj |-> [term |-> UnsetTerm, difficulty |-> "unset",
              date_published |-> UnsetDate, updated_at |-> 0],
     dirty |-> {}, status |-> 0]

\* An e-mail address that a request does not set.
UnsetEmail == 0

\* A handler of routers/users.py that serves no request.
IdleUserReq ==
    [pc |-> "idle", op |-> "none", id |-> 0,
     data |-> [name |-> "unset", email |-> UnsetEmail], status |-> 0]

\* A text column that is NULL, and a text parameter that is not given.
NullStr == <<"<null>">>
NoStr == <<>>

\* The parameters of get_words with none of them given.
NoFilter ==
    [category |-> NoStr, difficulty |-> "none", search |-> NoStr,
     date_from |-> NoDate, date_to |-> NoDate, published_only |-> FALSE,
     unpublished_only |-> FALSE, published_today |-> FALSE,
     skip |-> 0, limit |-> DefaultLimit]

\* No read request has been served.
IdleQuery ==
    [op |-> "none", params |-> NoFilter, year |-> 0, month |-> 0,
     status |-> 0, result |-> <<>>, calendar |-> <<>>, total_days |-> 0,
     days_with_words |-> 0]

\* send_email has not been called.  `pending` is the exception that is
\* propagating, `sent` what became of each recipient, `result` the value
\* returned and `raised` whether an exception left send_email.
IdleMail ==
    [pc |-> "idle", use_tls |-> FALSE, to_emails |-> 0, i |-> 0,
     successful_sends |-> 0, failed_sends |-> 0, sent |-> <<>>,
     pending |-> "none", errors |-> {}, result |-> "none", raised |-> FALSE]

\* ------------------------------------------------------------ Init (Spec)
TickTerm(n) == [k \in 1..n |-> "a"]

\* The words table of Spec: any dates, the rows numbered in the order of
\* their dates (a tick reads no id and no term).
Init ==
    /\ \E d \in [1..NumWords -> {NoDate} \cup Days] :
         /\ \A v, w \in 1..NumWords : v < w => d[v] <= d[w]
         /\ words = [w \in 1..NumWords |->
                       [term |-> TickTerm(w), difficulty |-> "beginner",
                        date_published |-> d[w], updated_at |-> 0]]
    /\ \E n \in 0..MaxUsers :
         users = [u \in 1..n |-> [id |-> u, email |-> u]]
    /\ clock = 1
    /\ app = "boot"
    /\ schedState = "created"
    /\ jobs = 0
    /\ tick = [s \in Slots |-> IdleTick]
    /\ sessions = 0
    /\ skipped = FALSE
    /\ stopSeen = {}
    /\ req = [th \in Threads |-> IdleReq]
    /\ nreq = 0
    /\ reported = {}
    /\ ureq = [th \in Threads |-> IdleUserReq]
    /\ q = IdleQuery
    /\ mail = IdleMail

\* ---------------------------------------------------------- environment
AdvanceDay ==
    /\ clock < MaxDay
    /\ clock' = clock + 1
    /\ UNCHANGED <<storeVars, schedVars, tick, sessions>>

\* ------------------------------------------- main.py and EmailScheduler
\* main.py:39-46 startup_event; scheduler.py:23-36 start() succeeds.
startup_event ==
    /\ app = "boot"
    /\ app' = "up"
    /\ jobs' = jobs + 1
    /\ schedState' = "running"
    /\ UNCHANGED <<storeVars, clock, tick, sessions, skipped, stopSeen,
                   reported>>

\* A start-up hook that lets the exception of start() pass: the host
\* gives up its start-up.
startup_event_failed_fatal ==
    /\ app = "boot"
    /\ app' = "crashed"
    /\ UNCHANGED <<storeVars, clock, schedState, jobs, tick, sessions,
                   skipped, stopSeen, reported>>

\* main.py:45-46: start() raised; the exception is logged and dropped.
startup_event_failed ==
    /\ app = "boot"
    /\ app' = "up"
    /\ reported' = reported \cup {"start"}
    /\ UNCHANGED <<storeVars, clock, schedState, jobs, tick, sessions,
                   skipped, stopSeen>>

\* stop() that also cancels the instances that are executing.
stop_cancels ==
    /\ schedState = "running"
    /\ schedState' = "stopped"
    /\ stopSeen' = stopSeen \cup Running
    /\ tick' = [s \in Slots |->
                  IF InFlight(s)
                  THEN [tick[s] EXCEPT !.pc = "done", !.outcome = "cancelled"]
                  ELSE tick[s]]
    /\ UNCHANGED <<jobs, skipped>>

\* scheduler.py:38-41 stop(): scheduler.shutdown() cancels the timer.  The
\* coroutine of a running instance has no await, so it is not cancelled.
stop ==
    /\ schedState = "running"
    /\ schedState' = "stopped"
    /\ stopSeen' = stopSeen \cup Running
    /\ UNCHANGED <<jobs, skipped, tick>>

\* main.py:48-55 shutdown_event; shutdown() of a scheduler that is not
\* running raises, which is logged and dropped.
shutdown_event ==
    /\ app = "up"
    /\ app' = "down"
    /\ IF schedState = "running"
       THEN stop /\ UNCHANGED reported
       ELSE /\ reported' = reported \cup {"stop"}
            /\ UNCHANGED <<schedState, jobs, skipped, stopSeen, tick>>
    /\ UNCHANGED <<storeVars, clock, sessions>>

\* The lowest instance slot that is free.
FreeSlot(s) == /\ ~InFlight(s)
               /\ \A r \in Slots : r < s => InFlight(r)

\* The job runner without the limit on running instances.
submit_job_unlimited(s) ==
    /\ schedState = "running"
    /\ jobs > 0
    /\ FreeSlot(s)
    /\ tick' = [tick EXCEPT ![s] = [IdleTick EXCEPT !.pc = "start"]]
    /\ stopSeen' = stopSeen \ {s}
    /\ UNCHANGED <<storeVars, clock, app, schedState, jobs, sessions, skipped,
                   reported>>

\* scheduler.py:26-33: the cron trigger fires and the job runner starts an
\* instance of send_daily_word_emails, unless max_instances are running.
submit_job(s) ==
    /\ schedState = "running"
    /\ jobs > 0
    /\ Cardinality(Running) < max_instances
    /\ FreeSlot(s)
    /\ tick' = [tick EXCEPT ![s] = [IdleTick EXCEPT !.pc = "start"]]
    /\ stopSeen' = stopSeen \ {s}
    /\ UNCHANGED <<storeVars, clock, app, schedState, jobs, sessions, skipped,
                   reported>>

\* The trigger fires while max_instances instances run: the run is skipped.
skip_job ==
    /\ schedState = "running"
    /\ jobs > 0
    /\ Cardinality(Running) >= max_instances
    /\ skipped' = TRUE
    /\ UNCHANGED <<storeVars, clock, app, schedState, jobs, tick, sessions,
                   stopSeen, reported>>

\* ------------------------------------------ send_daily_word_emails steps
Set(s, r) == tick' = [tick EXCEPT ![s] = r]

TickFrame == UNCHANGED <<storeVars, clock, schedVars>>

\* scheduler.py:46  db = SessionLocal()
acquire_session(s) ==
    /\ tick[s].pc = "start"
    /\ Set(s, [tick[s] EXCEPT !.pc = "today", !.db = "open"])
    /\ sessions' = sessions + 1
    /\ TickFrame

\* scheduler.py:46 raises: db is never bound.
acquire_session_raises(s) ==
    /\ tick[s].pc = "start"
    /\ Set(s, [tick[s] EXCEPT !.pc = "except"])
    /\ UNCHANGED sessions
    /\ TickFrame

\* scheduler.py:49-50
query_today(s) ==
    /\ tick[s].pc = "today"
    /\ LET rows == TodayRows(words, clock)
       IN  \E w \in (IF rows = {} THEN {NoWord} ELSE rows) :
             Set(s, [tick[s] EXCEPT !.today = clock, !.word = w,
                        !.pc = IF w = NoWord THEN "recent" ELSE "users"])
    /\ UNCHANGED sessions
    /\ TickFrame

\* A fallback that stamps the word it takes with today's date.
query_recent_stamps(s) ==
    /\ tick[s].pc = "recent"
    /\ LET rows == RecentRows(words)
       IN  \E w \in (IF rows = {} THEN {NoWord} ELSE rows) :
             /\ Set(s, IF w = NoWord
                       THEN [tick[s] EXCEPT !.word = w, !.outcome = "no_words",
                                            !.pc = "finally"]
                       ELSE [tick[s] EXCEPT !.word = w, !.pc = "users"])
             /\ words' = IF w = NoWord THEN words
                         ELSE [words EXCEPT ![w].date_published = clock]
    /\ UNCHANGED <<users, req, nreq, sideVars, clock, schedVars, sessions>>

\* scheduler.py:53-60
query_recent(s) ==
    /\ tick[s].pc = "recent"
    /\ LET rows == RecentRows(words)
       IN  \E w \in (IF rows = {} THEN {NoWord} ELSE rows) :
             Set(s, IF w = NoWord
                    THEN [tick[s] EXCEPT !.word = w, !.outcome = "no_words",
                                         !.pc = "finally"]
                    ELSE [tick[s] EXCEPT !.word = w, !.pc = "users"])
    /\ UNCHANGED sessions
    /\ TickFrame

\* scheduler.py:63-84
query_users(s) ==
    /\ tick[s].pc = "users"
    /\ Set(s, IF users = <<>>
              THEN [tick[s] EXCEPT !.outcome = "no_users", !.pc = "finally"]
              ELSE [tick[s] EXCEPT !.fetched = users,
                                   !.user_batches = UserBatches(users),
                                   !.total_sent = 0, !.i = 1,
                                   !.pc = "compose"])
    /\ UNCHANGED sessions
    /\ TickFrame

\* scheduler.py:86-94  email_service.create_word_email(...)
create_word_email(s) ==
    /\ tick[s].pc = "compose"
    /\ Set(s, [tick[s] EXCEPT !.composed = @ + 1, !.pc = "send"])
    /\ UNCHANGED sessions
    /\ TickFrame

\* The loop leaving at the first batch whose send failed.
AfterSend_abort(t, success) ==
    LET batch_emails == [k \in 1..Len(t.user_batches[t.i]) |->
                            t.user_batches[t.i][k].email]
        last == t.i = Len(t.user_batches) \/ ~success
    IN  [t EXCEPT !.sends = Append(@, [batch |-> t.i, ok |-> success]),
                  !.total_sent = IF success THEN @ + Len(batch_emails) ELSE @,
                  !.i = @ + 1,
                  !.outcome = IF last THEN "completed" ELSE @,
                  !.pc = IF last THEN "finally" ELSE "compose"]

\* The loop 85-108 after the send of batch i returned `success`.
AfterSend(t, success) ==
    LET batch_emails == [k \in 1..Len(t.user_batches[t.i]) |->
                            t.user_batches[t.i][k].email]
        last == t.i = Len(t.user_batches)
    IN  [t EXCEPT !.sends = Append(@, [batch |-> t.i, ok |-> success]),
                  !.total_sent = IF success THEN @ + Len(batch_emails) ELSE @,
                  !.i = @ + 1,
                  !.outcome = IF last THEN "completed" ELSE @,
                  !.pc = IF last THEN "finally" ELSE "compose"]

\* scheduler.py:98-110  email_service.send_email(...) returns success
send_email(s, success) ==
    /\ tick[s].pc = "send"
    /\ Set(s, AfterSend(tick[s], success))
    /\ UNCHANGED sessions
    /\ TickFrame

\* An exception in a query, in the Composer or around the Transport call.
step_raises(s) ==
    /\ tick[s].pc \in {"today", "recent", "users", "compose", "send"}
    /\ Set(s, [tick[s] EXCEPT !.pc = "except"])
    /\ UNCHANGED sessions
    /\ TickFrame

\* scheduler.py:112-113
except_handler(s) ==
    /\ tick[s].pc = "except"
    /\ Set(s, [tick[s] EXCEPT !.outcome = "error", !.pc = "finally"])
    /\ UNCHANGED sessions
    /\ TickFrame

\* A close that is skipped on the exception path.
finally_close_leaky(s) ==
    /\ tick[s].pc = "finally"
    /\ IF tick[s].db = "open" /\ tick[s].outcome # "error"
       THEN /\ Set(s, [tick[s] EXCEPT !.db = "closed", !.pc = "done"])
            /\ sessions' = sessions - 1
       ELSE /\ Set(s, [tick[s] EXCEPT !.raised = (tick[s].db = "unbound"),
                                      !.pc = "done"])
            /\ UNCHANGED sessions
    /\ TickFrame

\* scheduler.py:115-116  finally: db.close()
\* With db unbound the name lookup raises UnboundLocalError, which leaves
\* the coroutine.
finally_close(s) ==
    /\ tick[s].pc = "finally"
    /\ IF tick[s].db = "open"
       THEN /\ Set(s, [tick[s] EXCEPT !.db = "closed", !.pc = "done"])
            /\ sessions' = sessions - 1
       ELSE /\ Set(s, [tick[s] EXCEPT !.raised = TRUE, !.pc = "done"])
            /\ UNCHANGED sessions
    /\ TickFrame

send_daily_word_emails(s) ==
    \/ acquire_session(s)
    \/ acquire_session_raises(s)
    \/ query_today(s)
    \/ query_recent(s)
    \/ query_users(s)
    \/ create_word_email(s)
    \/ \E success \in BOOLEAN : send_email(s, success)
    \/ step_raises(s)
    \/ except_handler(s)
    \/ finally_close(s)

Next ==
    \/ AdvanceDay
    \/ startup_event
    \/ startup_event_failed
    \/ shutdown_event
    \/ \E s \in Slots : submit_job(s)
    \/ skip_job
    \/ \E s \in Slots : send_daily_word_emails(s)

Spec == Init /\ [][Next]_vars

\* ================================================== word store requests
ReqFrame == UNCHANGED <<users, clock, schedVars, tick, sessions, sideVars>>

\* A step of a request that is being served.
SetReq(th, r) == req' = [req EXCEPT ![th] = r] /\ UNCHANGED nreq

\* A new request is served by the lowest handler that is idle.
Accepts(th) ==
    /\ req[th].pc = "idle"
    /\ \A r \in Threads : r < th => req[r].pc # "idle"
    /\ nreq < MaxRequests

\* The first step of a request.
Begin(th, r) == req' = [req EXCEPT ![th] = r] /\ nreq' = nreq + 1

\* The handler returns or raises: the response is `code` and get_db closes
\* the session, which drops what was not committed (database.py:17-22).
Done(r, code) ==
    [IdleReq EXCEPT !.pc = "done", !.op = r.op, !.id = r.id, !.data = r.data,
                    !.status = code]

Max(S) == CHOOSE x \in S : \A y \in S : y <= x

\* SQLite's INTEGER PRIMARY KEY: one more than the largest id in the table.
NewId(ws) == IF DOMAIN ws = {} THEN 1 ELSE Max(DOMAIN ws) + 1

\* The word ids of requests: the ids in the table and one id that is not
\* (every id that is not in the table is answered alike, with 404).
RequestIds == (DOMAIN words \cup {NewId(words)}) \cap (1..(MaxId + 1))

\* models/word.py:10 unique=True: another row holds the term.
TermTaken(ws, term, self) ==
    \E w \in DOMAIN ws : w # self /\ ws[w].term = term

\* A duplicate check that compares the terms as they are.
existing_exact(ws, term, self) ==
    \E w \in DOMAIN ws : w # self /\ ws[w].term = term

\* routers/words.py:18 and 213-216: a row other than `self` whose term
\* matches the requested term under ilike.
existing(ws, term, self) ==
    \E w \in DOMAIN ws : w # self /\ ilike(ws[w].term, term)

\* A term stored in the case it was sent in.
normalise_keepcase(term) == strip(term)

\* routers/words.py:24 and 219: term.lower().strip()
normalise(term) == strip(lower(term))

\* datetime.utcnow(): the time advances with every request that arrives,
\* so a handler that reads it in the step of its arrival reads utcnow + 1.
utcnow == nreq

\* routers/words.py:18-20
create_word_check(th, d) ==
    /\ Accepts(th)
    /\ NewId(words) + Cardinality({r \in Threads : req[r].pc = "insert"})
          <= MaxId
    /\ LET r == [IdleReq EXCEPT !.op = "create", !.data = d]
       IN  IF existing(words, d.term, 0)
           THEN Begin(th, Done(r, 400))
           ELSE Begin(th, [r EXCEPT !.pc = "insert"])
    /\ UNCHANGED words
    /\ ReqFrame

\* routers/words.py:23-34: INSERT and commit; the unique index on term
\* rejects a term that a row holds (IntegrityError, not handled).
create_word_insert(th) ==
    /\ req[th].pc = "insert"
    /\ LET d == req[th].data
           row == [term |-> normalise(d.term), difficulty |-> d.difficulty,
                   date_published |-> d.date_published,
                   updated_at |-> utcnow]
           id == NewId(words)
       IN  IF TermTaken(words, row.term, 0)
           THEN /\ SetReq(th, Done(req[th], 500))
                /\ UNCHANGED words
           ELSE /\ SetReq(th, Done([req[th] EXCEPT !.id = id], 200))
                /\ words' = [w \in DOMAIN words \cup {id} |->
                                IF w = id THEN row ELSE words[w]]
    /\ ReqFrame

\* setattr(word, field, value) on the object of the session.
setattr(r, f, v) ==
    [r EXCEPT !.obj[f] = v,
              !.dirty = IF v # r.obj[f] THEN @ \cup {f} ELSE @]

\* routers/words.py:202-207
update_word_load(th, id, upd) ==
    /\ Accepts(th)
    /\ id \in RequestIds
    /\ LET r == [IdleReq EXCEPT !.op = "update", !.id = id, !.data = upd]
       IN  IF id \notin DOMAIN words
           THEN Begin(th, Done(r, 404))
           ELSE Begin(th, IF update_data(upd) = <<>>
                          THEN setattr([r EXCEPT !.obj = words[id],
                                                 !.pc = "commit"],
                                       "updated_at", utcnow + 1)
                          ELSE [r EXCEPT !.obj = words[id], !.k = 1,
                                         !.pc = "fields"])
    /\ UNCHANGED words
    /\ ReqFrame

\* One turn of the loop of routers/words.py:208-221 over a request `r`
\* whose duplicate check gave `dup`.
update_field(r, dup) ==
    LET f == update_data(r.data)[r.k]
        next == [r EXCEPT !.k = @ + 1,
                          !.pc = IF r.k = Len(update_data(r.data))
                                 THEN "commit" ELSE "fields"]
    IN  IF f = "difficulty" /\ r.data.difficulty # "null"
        THEN setattr(next, f, r.data.difficulty)
        ELSE IF f = "term" /\ r.data.term \notin {NullTerm, <<>>}
        THEN IF dup THEN Done(r, 400)
             ELSE setattr(next, f, normalise(r.data.term))
        ELSE setattr(next, f, r.data[f])

update_word_field(th) ==
    /\ req[th].pc = "fields"
    /\ LET r == update_field(req[th],
                        existing(words, req[th].data.term, req[th].id))
       IN  SetReq(th, IF r.pc = "commit"
                      THEN setattr(r, "updated_at", utcnow) ELSE r)
    /\ UNCHANGED words
    /\ ReqFrame

\* A publish that takes today's date whatever date the request names.
publish_word_today(th, id, publish_date) ==
    /\ Accepts(th)
    /\ id \in RequestIds
    /\ LET r == [IdleReq EXCEPT !.op = "publish", !.id = id,
                                !.data.date_published = publish_date]
       IN  IF id \notin DOMAIN words
           THEN Begin(th, Done(r, 404))
           ELSE Begin(th, setattr(setattr([r EXCEPT !.obj = words[id],
                                                     !.pc = "commit"],
                                           "date_published", clock),
                                   "updated_at", utcnow + 1))
    /\ UNCHANGED words
    /\ ReqFrame

\* routers/words.py:229-246 up to the commit
publish_word(th, id, publish_date) ==
    /\ Accepts(th)
    /\ id \in RequestIds
    /\ LET r == [IdleReq EXCEPT !.op = "publish", !.id = id,
                                !.data.date_published = publish_date]
           d == IF publish_date = NoDate THEN clock ELSE publish_date
       IN  IF id \notin DOMAIN words
           THEN Begin(th, Done(r, 404))
           ELSE Begin(th, setattr(setattr([r EXCEPT !.obj = words[id],
                                                     !.pc = "commit"],
                                           "date_published", d),
                                   "updated_at", utcnow + 1))
    /\ UNCHANGED words
    /\ ReqFrame

\* routers/words.py:254-264 up to the commit
unpublish_word(th, id) ==
    /\ Accepts(th)
    /\ id \in RequestIds
    /\ LET r == [IdleReq EXCEPT !.op = "unpublish", !.id = id]
       IN  IF id \notin DOMAIN words
           THEN Begin(th, Done(r, 404))
           ELSE Begin(th, setattr(setattr([r EXCEPT !.obj = words[id],
                                                     !.pc = "commit"],
                                           "date_published", NoDate),
                                   "updated_at", utcnow + 1))
    /\ UNCHANGED words
    /\ ReqFrame

\* The row after the UPDATE of the columns that changed.
Written(row, r) ==
    [term |-> IF "term" \in r.dirty THEN r.obj.term ELSE row.term,
     difficulty |-> IF "difficulty" \in r.dirty
                    THEN r.obj.difficulty ELSE row.difficulty,
     date_published |-> IF "date_published" \in r.dirty
                        THEN r.obj.date_published ELSE row.date_published,
     updated_at |-> IF "updated_at" \in r.dirty
                    THEN r.obj.updated_at ELSE row.updated_at]

\* An UPDATE on a difficulty column that takes NULL.
CommitFails_nullable(ws, r) ==
    \/ r.id \notin DOMAIN ws
    \/ "term" \in r.dirty /\ r.obj.term = NullTerm
    \/ "term" \in r.dirty /\ TermTaken(ws, r.obj.term, r.id)

\* The UPDATE breaks a constraint of models/word.py:10-15 (NOT NULL on term
\* and difficulty, the unique index on term) or finds no row.
CommitFails(ws, r) ==
    \/ r.id \notin DOMAIN ws
    \/ "term" \in r.dirty /\ r.obj.term = NullTerm
    \/ "difficulty" \in r.dirty /\ r.obj.difficulty = "null"
    \/ "term" \in r.dirty /\ TermTaken(ws, r.obj.term, r.id)

\* routers/words.py:223-225, 244-246, 262-264: db.commit()
commit_word(th) ==
    /\ req[th].pc = "commit"
    /\ IF CommitFails(words, req[th])
       THEN /\ SetReq(th, Done(req[th], 500))
            /\ UNCHANGED words
       ELSE /\ SetReq(th, Done(req[th], 200))
            /\ words' = [words EXCEPT
                            ![req[th].id] = Written(words[req[th].id], req[th])]
    /\ ReqFrame

\* routers/words.py:271-276
delete_word_load(th, id) ==
    /\ Accepts(th)
    /\ id \in RequestIds
    /\ LET r == [IdleReq EXCEPT !.op = "delete", !.id = id]
       IN  IF id \notin DOMAIN words
           THEN Begin(th, Done(r, 404))
           ELSE Begin(th, [r EXCEPT !.obj = words[id], !.pc = "delete"])
    /\ UNCHANGED words
    /\ ReqFrame

\* routers/words.py:278-281
delete_word_commit(th) ==
    /\ req[th].pc = "delete"
    /\ SetReq(th, Done(req[th], 200))
    /\ words' = [w \in DOMAIN words \ {req[th].id} |-> words[w]]
    /\ ReqFrame

\* The response has gone out; the handler is free again.
respond(th) ==
    /\ req[th].pc = "done"
    /\ SetReq(th, IdleReq)
    /\ UNCHANGED words
    /\ ReqFrame

\* The word store before the run: empty, or holding one word stored
\* earlier by a create request.
StoreInit ==
    /\ words \in {<<>>, <<[term |-> <<"a">>, difficulty |-> "beginner",
                           date_published |-> NoDate, updated_at |-> 0]>>}
    /\ users = <<>>
    /\ clock = 1
    /\ app = "boot"
    /\ schedState = "created"
    /\ jobs = 0
    /\ tick = [s \in Slots |-> IdleTick]
    /\ sessions = 0
    /\ skipped = FALSE
    /\ stopSeen = {}
    /\ req = [th \in Threads |-> IdleReq]
    /\ nreq = 0
    /\ reported = {}
    /\ ureq = [th \in Threads |-> IdleUserReq]
    /\ q = IdleQuery
    /\ mail = IdleMail

StoreNext ==
    \/ \E th \in Threads, d \in CreateInputs : create_word_check(th, d)
    \/ \E th \in Threads : create_word_insert(th)
    \/ \E th \in Threads, id \in 1..(MaxId + 1), upd \in UpdateInputs :
          update_word_load(th, id, upd)
    \/ \E th \in Threads : update_word_field(th)
    \/ \E th \in Threads, id \in 1..(MaxId + 1), d \in {NoDate, 2} :
          publish_word(th, id, d)
    \/ \E th \in Threads, id \in 1..(MaxId + 1) : unpublish_word(th, id)
    \/ \E th \in Threads : commit_word(th)
    \/ \E th \in Threads, id \in 1..(MaxId + 1) : delete_word_load(th, id)
    \/ \E th \in Threads : delete_word_commit(th)
    \/ \E th \in Threads : respond(th)

StoreSpec == StoreInit /\ [][StoreNext]_vars

\* ================================================ word store read requests
\* The years of the requests of QuerySpec.
Years == (MinYear - YearMargin)..(MaxYear + YearMargin)

IsLeap(year) == (year % 4 = 0 /\ year % 100 # 0) \/ year % 400 = 0

\* calendar.monthrange(year, month)[1]
monthrange(year, month) ==
    CASE month \in {1, 3, 5, 7, 8, 10, 12} -> 31
      [] month \in {4, 6, 9, 11} -> 30
      [] OTHER -> IF IsLeap(year) THEN 29 ELSE 28

RECURSIVE DaysBeforeYear(_)
DaysBeforeYear(year) ==
    IF year <= MinYear - YearMargin THEN 0
    ELSE (IF IsLeap(year - 1) THEN 366 ELSE 365) + DaysBeforeYear(year - 1)

RECURSIVE DaysBeforeMonth(_, _)
DaysBeforeMonth(year, month) ==
    IF month <= 1 THEN 0
    ELSE monthrange(year, month - 1) + DaysBeforeMonth(year, month - 1)

\* The days before the first day of each month of Years and of the year
\* after them.
MonthStart ==
    [year \in (MinYear - YearMargin)..(MaxYear + YearMargin + 1) |->
        [month \in 1..12 |->
            DaysBeforeYear(year) + DaysBeforeMonth(year, month)]]

\* datetime.date(year, month, day), as the number of the day counted from
\* the first day of the first year of Years.
date(year, month, day) == MonthStart[year][month] + day

\* The publication dates of the words of QuerySpec.
QueryDates ==
    {NoDate, date(MinYear - YearMargin, 12, 31), date(MinYear, 2, 1),
     date(MinYear, 2, 29)}

\* date.today() in QuerySpec
QueryToday == date(MinYear, 2, 1)

\* The category and difficulty of the words of QuerySpec.
Profiles ==
    {[category |-> NullStr, difficulty |-> "beginner"],
     [category |-> <<"A", "i">>, difficulty |-> "expert"]}

\* routers/words.py:38-47: the parameters of get_words, every combination
\* of the filters on the first page and one request for a later page.
QueryInputs ==
    {[category |-> c, difficulty |-> d, search |-> s, date_from |-> df,
      date_to |-> dt, published_only |-> po, unpublished_only |-> uo,
      published_today |-> pt, skip |-> 0, limit |-> DefaultLimit] :
        c \in {NoStr, <<"a">>}, d \in {"none", "expert"},
        s \in {NoStr, <<"B">>},
        df \in {NoDate, date(MinYear, 2, 29)},
        dt \in {NoDate, date(MinYear, 3, 1)},
        po \in BOOLEAN, uo \in BOOLEAN, pt \in BOOLEAN}
    \cup {[NoFilter EXCEPT !.skip = 1, !.limit = 1]}

\* column.ilike(f"%{text}%") on a column that may be NULL
Contains(column, text) ==
    column # NullStr /\ ilike(column, <<"%">> \o text \o <<"%">>)

\* The WHERE clause without the two flags on the publication state.
Matches_noflags(row, p, today) ==
    /\ p.category # NoStr => Contains(row.category, p.category)
    /\ p.difficulty # "none" => row.difficulty = p.difficulty
    /\ p.search # NoStr =>
          \/ Contains(row.term, p.search)
          \/ Contains(row.definition, p.search)
          \/ Contains(row.example, p.search)
    /\ IF p.published_today THEN row.date_published = today
       ELSE IF p.date_from # NoDate /\ p.date_to # NoDate
       THEN /\ row.date_published # NoDate
            /\ p.date_from <= row.date_published
            /\ row.date_published <= p.date_to
       ELSE IF p.date_from # NoDate
       THEN row.date_published # NoDate /\ row.date_published >= p.date_from
       ELSE IF p.date_to # NoDate
       THEN row.date_published # NoDate /\ row.date_published <= p.date_to
       ELSE TRUE

\* routers/words.py:51-87: the WHERE clause get_words builds.
Matches(row, p, today) ==
    /\ p.category # NoStr => Contains(row.category, p.category)
    /\ p.difficulty # "none" => row.difficulty = p.difficulty
    /\ p.search # NoStr =>
          \/ Contains(row.term, p.search)
          \/ Contains(row.definition, p.search)
          \/ Contains(row.example, p.search)
    /\ IF p.published_only THEN row.date_published # NoDate
       ELSE IF p.unpublished_only THEN row.date_published = NoDate
       ELSE TRUE
    /\ IF p.published_today THEN row.date_published = today
       ELSE IF p.date_from # NoDate /\ p.date_to # NoDate
       THEN /\ row.date_published # NoDate
            /\ p.date_from <= row.date_published
            /\ row.date_published <= p.date_to
       ELSE IF p.date_from # NoDate
       THEN row.date_published # NoDate /\ row.date_published >= p.date_from
       ELSE IF p.date_to # NoDate
       THEN row.date_published # NoDate /\ row.date_published <= p.date_to
       ELSE TRUE

\* routers/words.py:90-93: date_published DESC NULLS LAST, created_at DESC
Before(ws, v, w) ==
    IF ws[v].date_published # ws[w].date_published
    THEN /\ ws[v].date_published # NoDate
         /\ \/ ws[w].date_published = NoDate
            \/ ws[v].date_published > ws[w].date_published
    ELSE ws[v].created_at > ws[w].created_at

RECURSIVE Ordered(_, _)
Ordered(ws, S) ==
    IF S = {} THEN <<>>
    ELSE LET first == CHOOSE v \in S : \A w \in S \ {v} : Before(ws, v, w)
         IN  <<first>> \o Ordered(ws, S \ {first})

\* query.offset(skip).limit(limit).all()
Page(seq, skip, limit) == Slice(seq, Min(skip, Len(seq)), skip + limit)

\* The rows get_words returns, as their ids in the order of the response.
WordsQuery(ws, p, today) ==
    Page(Ordered(ws, {w \in DOMAIN ws : Matches(ws[w], p, today)}),
         p.skip, p.limit)

QueryFrame ==
    UNCHANGED <<words, users, req, nreq, ureq, mail, clock, schedVars, tick,
                sessions>>

\* A run of QuerySpec serves one read request: a read changes no table, so
\* a second read would be answered from the same tables.
Unserved == q.op = "none"

\* routers/words.py:38-95
get_words(p) ==
    /\ Unserved
    /\ q' = [IdleQuery EXCEPT !.op = "get_words", !.params = p,
                              !.status = 200,
                              !.result = WordsQuery(words, p, clock)]
    /\ QueryFrame

\* The sequences of the members of S, each once.
Perms(S) ==
    {f \in [1..Cardinality(S) -> S] :
        \A j, k \in 1..Cardinality(S) : j # k => f[j] # f[k]}

\* A month query without the check of the year.
get_monthly_words_anyyear(year, month) ==
    /\ Unserved
    /\ IF month < 1 \/ month > 12
       THEN q' = [IdleQuery EXCEPT !.op = "get_monthly_words", !.year = year,
                                   !.month = month, !.status = 400]
       ELSE LET start_date == date(year, month, 1)
                end_date == date(year, month, monthrange(year, month))
                rows == {w \in DOMAIN words :
                            /\ words[w].date_published # NoDate
                            /\ start_date <= words[w].date_published
                            /\ words[w].date_published <= end_date}
            IN  \E r \in Perms(rows) :
                  /\ \A j, k \in 1..Len(r) :
                        j < k => words[r[j]].date_published
                                    <= words[r[k]].date_published
                  /\ q' = [IdleQuery EXCEPT !.op = "get_monthly_words",
                                            !.year = year, !.month = month,
                                            !.status = 200, !.result = r]
    /\ QueryFrame

\* routers/words.py:159-182; rows of one date come in any order.
get_monthly_words(year, month) ==
    /\ Unserved
    /\ IF month < 1 \/ month > 12 \/ year < MinYear \/ year > MaxYear
       THEN q' = [IdleQuery EXCEPT !.op = "get_monthly_words", !.year = year,
                                   !.month = month, !.status = 400]
       ELSE LET start_date == date(year, month, 1)
                end_date == date(year, month, monthrange(year, month))
                rows == {w \in DOMAIN words :
                            /\ words[w].date_published # NoDate
                            /\ start_date <= words[w].date_published
                            /\ words[w].date_published <= end_date}
            IN  \E r \in Perms(rows) :
                  /\ \A j, k \in 1..Len(r) :
                        j < k => words[r[j]].date_published
                                    <= words[r[k]].date_published
                  /\ q' = [IdleQuery EXCEPT !.op = "get_monthly_words",
                                            !.year = year, !.month = month,
                                            !.status = 200, !.result = r]
    /\ QueryFrame

\* sum(1 for day in calendar_data if day["has_words"])
RECURSIVE SumHasWords(_)
SumHasWords(calendar_data) ==
    IF calendar_data = <<>> THEN 0
    ELSE (IF Head(calendar_data).has_words THEN 1 ELSE 0)
         + SumHasWords(Tail(calendar_data))

\* A calendar whose loop leaves out the last day of the month.
CalendarData_short(ws, year, month) ==
    [day \in 1..(monthrange(year, month) - 1) |->
        LET target_date == date(year, month, day)
            word_count == Cardinality({w \in DOMAIN ws :
                              ws[w].date_published = target_date})
        IN  [date |-> target_date, day |-> day, word_count |-> word_count,
             has_words |-> word_count > 0]]

\* routers/words.py:362-372: the loop over range(1, last_day + 1)
CalendarData(ws, year, month) ==
    [day \in 1..monthrange(year, month) |->
        LET target_date == date(year, month, day)
            word_count == Cardinality({w \in DOMAIN ws :
                              ws[w].date_published = target_date})
        IN  [date |-> target_date, day |-> day, word_count |-> word_count,
             has_words |-> word_count > 0]]

\* routers/words.py:353-380
get_calendar_stats(year, month) ==
    /\ Unserved
    /\ IF month < 1 \/ month > 12
       THEN q' = [IdleQuery EXCEPT !.op = "get_calendar_stats",
                                   !.year = year, !.month = month,
                                   !.status = 400]
       ELSE LET calendar_data == CalendarData(words, year, month)
            IN  q' = [IdleQuery EXCEPT
                        !.op = "get_calendar_stats", !.year = year,
                        !.month = month, !.status = 200,
                        !.calendar = calendar_data,
                        !.total_days = monthrange(year, month),
                        !.days_with_words = SumHasWords(calendar_data)]
    /\ QueryFrame

\* The words of QuerySpec: word w was created w-th; its term is "a" for
\* the first word and "b", "bb", ... for the later ones.
QueryTerm(w) == IF w = 1 THEN <<"a">> ELSE [k \in 1..(w - 1) |-> "b"]

QueryInit ==
    /\ \E d \in [1..NumWords -> QueryDates], pr \in [1..NumWords -> Profiles] :
          words = [w \in 1..NumWords |->
                     [term |-> QueryTerm(w), difficulty |-> pr[w].difficulty,
                      date_published |-> d[w], updated_at |-> 0,
                      category |-> pr[w].category, definition |-> <<"d">>,
                      example |-> NullStr, created_at |-> w]]
    /\ users = <<>>
    /\ clock = QueryToday
    /\ app = "boot"
    /\ schedState = "created"
    /\ jobs = 0
    /\ tick = [s \in Slots |-> IdleTick]
    /\ sessions = 0
    /\ skipped = FALSE
    /\ stopSeen = {}
    /\ req = [th \in Threads |-> IdleReq]
    /\ nreq = 0
    /\ reported = {}
    /\ ureq = [th \in Threads |-> IdleUserReq]
    /\ q = IdleQuery
    /\ mail = IdleMail

QueryNext ==
    \/ \E p \in QueryInputs : get_words(p)
    \/ \E year \in Years, month \in 0..13 : get_monthly_words(year, month)
    \/ \E year \in Years, month \in 0..13 : get_calendar_stats(year, month)

QuerySpec == QueryInit /\ [][QueryNext]_vars

\* ======================================================== Mail Transport
MailFrame ==
    UNCHANGED <<words, users, req, nreq, ureq, q, clock, schedVars, tick,
                sessions>>

\* email_service.py:84-105: the call, the log lines and the message.
send_email_call(n) ==
    /\ mail.pc = "idle"
    /\ mail' = [mail EXCEPT !.pc = "connect", !.to_emails = n]
    /\ MailFrame

\* email_service.py:108  smtplib.SMTP(EMAIL_HOST, EMAIL_PORT, timeout=30)
\* When it raises (connection refused, timeout), the inner try is not
\* entered and the handlers of lines 156-180 run.
smtp_connect(ok) ==
    /\ mail.pc = "connect"
    /\ mail' = IF ok
               THEN [mail EXCEPT !.pc = IF mail.use_tls THEN "starttls"
                                        ELSE "login"]
               ELSE [mail EXCEPT !.pc = "except", !.pending = "connect",
                                 !.errors = @ \cup {"connect"}]
    /\ MailFrame

\* email_service.py:114-118  server.starttls(context=context)
smtp_starttls(ok) ==
    /\ mail.pc = "starttls"
    /\ mail' = IF ok THEN [mail EXCEPT !.pc = "login"]
               ELSE [mail EXCEPT !.pc = "quit", !.pending = "tls",
                                 !.errors = @ \cup {"tls"}]
    /\ MailFrame

\* email_service.py:120-126  server.login(...), then the counters are set
smtp_login(ok) ==
    /\ mail.pc = "login"
    /\ mail' = IF ok
               THEN [mail EXCEPT !.pc = IF mail.to_emails = 0 THEN "quit"
                                        ELSE "loop",
                                 !.i = 1]
               ELSE [mail EXCEPT !.pc = "quit", !.pending = "auth",
                                 !.errors = @ \cup {"auth"}]
    /\ MailFrame

\* email_service.py:128-146: one recipient.  send_message returns an empty
\* dict (accepted), a dict of refusals, or raises (recipient refused,
\* server disconnected); the inner handler counts the failure.
send_message(outcome) ==
    /\ mail.pc = "loop"
    /\ mail' = [mail EXCEPT
                  !.successful_sends = IF outcome = "accepted" THEN @ + 1 ELSE @,
                  !.failed_sends = IF outcome = "accepted" THEN @ ELSE @ + 1,
                  !.sent = Append(@, outcome),
                  !.errors = IF outcome = "raised" THEN @ \cup {"send"} ELSE @,
                  !.i = @ + 1,
                  !.pc = IF mail.i = mail.to_emails THEN "quit" ELSE "loop"]
    /\ MailFrame

\* email_service.py:150-152  finally: server.quit().  An exception of
\* quit() replaces the one that was propagating; either goes to the
\* handlers of lines 156-180.
smtp_quit(ok) ==
    /\ mail.pc = "quit"
    /\ mail' = IF ~ok
               THEN [mail EXCEPT !.pc = "except", !.pending = "quit",
                                 !.errors = @ \cup {"quit"}]
               ELSE IF mail.pending # "none"
               THEN [mail EXCEPT !.pc = "except"]
               ELSE [mail EXCEPT !.pc = "return"]
    /\ MailFrame

\* email_service.py:154  return successful_sends > 0
send_email_return ==
    /\ mail.pc = "return"
    /\ mail' = [mail EXCEPT !.pc = "done",
                            !.result = IF mail.successful_sends > 0
                                       THEN "true" ELSE "false"]
    /\ MailFrame

\* email_service.py:156-180: every handler logs and returns False.
send_email_except ==
    /\ mail.pc = "except"
    /\ mail' = [mail EXCEPT !.pc = "done", !.pending = "none",
                            !.result = "false"]
    /\ MailFrame

\* EMAIL_USE_TLS of email_service.py:19 is read from the environment.
MailInit ==
    /\ words = <<>>
    /\ users = <<>>
    /\ clock = 1
    /\ app = "boot"
    /\ schedState = "created"
    /\ jobs = 0
    /\ tick = [s \in Slots |-> IdleTick]
    /\ sessions = 0
    /\ skipped = FALSE
    /\ stopSeen = {}
    /\ req = [th \in Threads |-> IdleReq]
    /\ nreq = 0
    /\ reported = {}
    /\ ureq = [th \in Threads |-> IdleUserReq]
    /\ q = IdleQuery
    /\ \E tls \in BOOLEAN : mail = [IdleMail EXCEPT !.use_tls = tls]

MailNext ==
    \/ \E n \in 0..MaxRecipients : send_email_call(n)
    \/ \E ok \in BOOLEAN : smtp_connect(ok)
    \/ \E ok \in BOOLEAN : smtp_starttls(ok)
    \/ \E ok \in BOOLEAN : smtp_login(ok)
    \/ \E outcome \in {"accepted", "refused", "raised"} : send_message(outcome)
    \/ \E ok \in BOOLEAN : smtp_quit(ok)
    \/ send_email_return
    \/ send_email_except

MailSpec == MailInit /\ [][MailNext]_vars

\* ============================================== subscriber store requests
Emails == 1..NumEmails

\* schemas/user_schemas.py:6-12 UserCreate and UserUpdate: the address, and
\* whether the name is set.
UserCreateInputs == {[name |-> "n", email |-> e] : e \in Emails}

UserUpdateInputs ==
    {[name |-> n, email |-> e] :
        n \in {"unset", "n"}, e \in Emails \cup {UnsetEmail}}

UserFrame == UNCHANGED <<words, req, clock, schedVars, tick, sessions, q, mail>>

SetUserReq(th, r) == ureq' = [ureq EXCEPT ![th] = r] /\ UNCHANGED nreq

\* A new request is served by the lowest handler that is idle.
UserAccepts(th) ==
    /\ ureq[th].pc = "idle"
    /\ \A r \in Threads : r < th => ureq[r].pc # "idle"
    /\ nreq < MaxRequests

UserBegin(th, r) == ureq' = [ureq EXCEPT ![th] = r] /\ nreq' = nreq + 1

\* The handler returns or raises; get_db closes the session.
UserDone(r, code) == [r EXCEPT !.pc = "done", !.status = code]

UserIds(us) == {us[k].id : k \in 1..Len(us)}

\* The rowid of a new row: one more than the largest id in the table.
NewUserId(us) == IF us = <<>> THEN 1 ELSE Max(UserIds(us)) + 1

\* The user ids of requests: the ids in the table and one that is not.
UserRequestIds == (UserIds(users) \cup {NewUserId(users)}) \cap (1..(MaxId + 1))

\* db.query(User).filter(User.id == user_id).first(): the index of the row.
UserRow(us, id) ==
    IF id \in UserIds(us) THEN CHOOSE k \in 1..Len(us) : us[k].id = id ELSE 0

\* users.py:17 and 68: a row other than `self` holds the address.
existing_user(us, email, self) ==
    \E k \in 1..Len(us) : us[k].id # self /\ us[k].email = email

\* The store's uniqueness guarantee on the address of a subscriber.
EmailTaken(us, email, self) ==
    \E k \in 1..Len(us) : us[k].id # self /\ us[k].email = email

\* users.py:17-19
create_user_check(th, d) ==
    /\ UserAccepts(th)
    /\ NewUserId(users) + Cardinality({r \in Threads : ureq[r].pc = "insert"})
          <= MaxId
    /\ LET r == [IdleUserReq EXCEPT !.op = "create", !.data = d]
       IN  IF existing_user(users, d.email, 0)
           THEN UserBegin(th, UserDone(r, 400))
           ELSE UserBegin(th, [r EXCEPT !.pc = "insert"])
    /\ UNCHANGED users
    /\ UserFrame

\* users.py:22-30: INSERT and commit; the store rejects an address that a
\* row holds (IntegrityError, not handled).
create_user_insert(th) ==
    /\ ureq[th].pc = "insert"
    /\ LET id == NewUserId(users)
       IN  IF EmailTaken(users, ureq[th].data.email, 0)
           THEN /\ SetUserReq(th, UserDone(ureq[th], 500))
                /\ UNCHANGED users
           ELSE /\ SetUserReq(th, UserDone([ureq[th] EXCEPT !.id = id], 200))
                /\ users' = Append(users,
                                   [id |-> id, email |-> ureq[th].data.email])
    /\ UserFrame

\* An update whose duplicate check is left out.
update_user_load_unchecked(th, id, upd) ==
    /\ UserAccepts(th)
    /\ id \in UserRequestIds
    /\ LET r == [IdleUserReq EXCEPT !.op = "update", !.id = id, !.data = upd]
       IN  IF id \notin UserIds(users)
           THEN UserBegin(th, UserDone(r, 404))
           ELSE UserBegin(th, [r EXCEPT !.pc = "commit"])
    /\ UNCHANGED users
    /\ UserFrame

\* users.py:62-70: the row is read, then the duplicate check is made when
\* the request sets an address other than the one read.
update_user_load(th, id, upd) ==
    /\ UserAccepts(th)
    /\ id \in UserRequestIds
    /\ LET r == [IdleUserReq EXCEPT !.op = "update", !.id = id, !.data = upd]
       IN  IF id \notin UserIds(users)
           THEN UserBegin(th, UserDone(r, 404))
           ELSE IF /\ upd.email # UnsetEmail
                   /\ upd.email # users[UserRow(users, id)].email
                   /\ existing_user(users, upd.email, id)
           THEN UserBegin(th, UserDone(r, 400))
           ELSE UserBegin(th, [r EXCEPT !.pc = "commit"])
    /\ UNCHANGED users
    /\ UserFrame

\* users.py:73-79: the fields that are set are written and committed; the
\* store rejects an address that another row holds, and an UPDATE of a row
\* that is gone fails.
update_user_commit(th) ==
    /\ ureq[th].pc = "commit"
    /\ LET r == ureq[th]
           k == UserRow(users, r.id)
       IN  IF \/ k = 0
              \/ r.data.email # UnsetEmail /\ EmailTaken(users, r.data.email, r.id)
           THEN /\ SetUserReq(th, UserDone(r, 500))
                /\ UNCHANGED users
           ELSE /\ SetUserReq(th, UserDone(r, 200))
                /\ users' = IF r.data.email = UnsetEmail THEN users
                             ELSE [users EXCEPT ![k].email = r.data.email]
    /\ UserFrame

\* users.py:86-88
delete_user_load(th, id) ==
    /\ UserAccepts(th)
    /\ id \in UserRequestIds
    /\ LET r == [IdleUserReq EXCEPT !.op = "delete", !.id = id]
       IN  IF id \notin UserIds(users)
           THEN UserBegin(th, UserDone(r, 404))
           ELSE UserBegin(th, [r EXCEPT !.pc = "delete"])
    /\ UNCHANGED users
    /\ UserFrame

\* users.py:90-93: a DELETE of a row that is gone fails.
delete_user_commit(th) ==
    /\ ureq[th].pc = "delete"
    /\ LET k == UserRow(users, ureq[th].id)
       IN  IF k = 0
           THEN /\ SetUserReq(th, UserDone(ureq[th], 500))
                /\ UNCHANGED users
           ELSE /\ SetUserReq(th, UserDone(ureq[th], 200))
                /\ users' = SubSeq(users, 1, k - 1)
                               \o SubSeq(users, k + 1, Len(users))
    /\ UserFrame

\* The response has gone out; the handler is free again.
user_respond(th) ==
    /\ ureq[th].pc = "done"
    /\ SetUserReq(th, IdleUserReq)
    /\ UNCHANGED users
    /\ UserFrame

\* The subscriber store before the run: empty, or holding one subscriber
\* stored earlier by a create request.
UserInit ==
    /\ words = <<>>
    /\ users \in {<<>>, <<[id |-> 1, email |-> 1]>>}
    /\ clock = 1
    /\ app = "boot"
    /\ schedState = "created"
    /\ jobs = 0
    /\ tick = [s \in Slots |-> IdleTick]
    /\ sessions = 0
    /\ skipped = FALSE
    /\ stopSeen = {}
    /\ req = [th \in Threads |-> IdleReq]
    /\ nreq = 0
    /\ reported = {}
    /\ ureq = [th \in Threads |-> IdleUserReq]
    /\ q = IdleQuery
    /\ mail = IdleMail

UserNext ==
    \/ \E th \in Threads, d \in UserCreateInputs : create_user_check(th, d)
    \/ \E th \in Threads : create_user_insert(th)
    \/ \E th \in Threads, id \in 1..(MaxId + 1), upd \in UserUpdateInputs :
          update_user_load(th, id, upd)
    \/ \E th \in Threads : update_user_commit(th)
    \/ \E th \in Threads, id \in 1..(MaxId + 1) : delete_user_load(th, id)
    \/ \E th \in Threads : delete_user_commit(th)
    \/ \E th \in Threads : user_respond(th)

UserSpec == UserInit /\ [][UserNext]_vars

\* ======================================================= claims under Spec
RECURSIVE Flatten(_)
Flatten(bs) == IF bs = <<>> THEN <<>> ELSE Head(bs) \o Flatten(Tail(bs))

RECURSIVE SentTotal(_, _)
SentTotal(log, bs) ==
    IF log = <<>> THEN 0
    ELSE (IF Head(log).ok THEN Len(bs[Head(log).batch]) ELSE 0)
         + SentTotal(Tail(log), bs)

Published(ws) == {w \in DOMAIN ws : ws[w].date_published # NoDate}
OnDate(ws, d) == {w \in DOMAIN ws : ws[w].date_published = d}

\* The tick has passed its word selection without an exception.
Selected(t) ==
    \/ t.pc \in {"users", "compose", "send"}
    \/ t.outcome \in {"no_words", "no_users", "completed"}

\* The tick has passed its subscriber query without an exception.
Fetched(t) ==
    \/ t.pc \in {"compose", "send"}
    \/ t.outcome \in {"no_users", "completed"}
    \/ t.fetched # <<>>

\* C1: the word a tick announces is one published on the tick's date when
\* there is one; otherwise one with the greatest publication date when any
\* word is published; otherwise there is no word, the Composer and the
\* Transport are not called and the tick does not raise.
C1_WordSelection ==
    \A s \in Slots :
        LET t == tick[s]
        IN  Selected(t) =>
            /\ t.today \in Days /\ t.today <= clock
            /\ OnDate(words, t.today) # {} => t.word \in OnDate(words, t.today)
            /\ (OnDate(words, t.today) = {} /\ Published(words) # {}) =>
                  /\ t.word \in Published(words)
                  /\ \A v \in Published(words) :
                        words[v].date_published
                            <= words[t.word].date_published
            /\ Published(words) = {} =>
                  /\ t.word = NoWord
                  /\ t.composed = 0
                  /\ t.sends = <<>>
                  /\ ~t.raised
                  /\ t.pc \in {"finally", "done"}

\* A finished tick that fell back to the later of two earlier publications.
C1_Witness ==
    \E s \in Slots :
        /\ tick[s].pc = "done"
        /\ tick[s].outcome = "completed"
        /\ OnDate(words, tick[s].today) = {}
        /\ Cardinality({words[w].date_published : w \in Published(words)}) > 1
        /\ tick[s].word \in Published(words)

\* C2: a tick over n subscribers forms ceil(n / 10) batches, all of 10
\* members but the last, which has 1..10; the batches in order concatenate
\* to the subscriber list; the Composer and the Transport are called once
\* per batch; 23 subscribers give batches of 10, 10 and 3.
C2_Batching ==
    \A s \in Slots :
        LET t == tick[s]
            n == Len(t.fetched)
            B == t.user_batches
        IN  Fetched(t) =>
            /\ t.fetched = users
            /\ Len(B) * 10 >= n /\ (Len(B) > 0 => (Len(B) - 1) * 10 < n)
            /\ \A k \in 1..Len(B) :
                  /\ k < Len(B) => Len(B[k]) = 10
                  /\ Len(B[k]) \in 1..10
            /\ Flatten(B) = t.fetched
            /\ n = 23 => <<Len(B[1]), Len(B[2]), Len(B[3])>> = <<10, 10, 3>>
            /\ t.pc = "compose" => t.composed = t.i - 1 /\ Len(t.sends) = t.i - 1
            /\ t.pc = "send" => t.composed = t.i /\ Len(t.sends) = t.i - 1
            /\ t.outcome \in {"completed", "no_users"} =>
                  t.composed = Len(B) /\ Len(t.sends) = Len(B)

C2_Witness ==
    \E s \in Slots :
        /\ tick[s].pc = "done"
        /\ tick[s].outcome = "completed"
        /\ Len(tick[s].fetched) = 23
        /\ Len(tick[s].user_batches) = 3
        /\ tick[s].composed = 3

\* C3: the total a tick reports is the sum of the sizes of the batches whose
\* send succeeded; a failed batch is not sent again and the batches after
\* it are still sent: a tick that completes has sent every batch once, in
\* order.
C3_Aggregation ==
    \A s \in Slots :
        LET t == tick[s]
        IN  /\ t.total_sent = SentTotal(t.sends, t.user_batches)
            /\ \A k \in 1..Len(t.sends) : t.sends[k].batch = k
            /\ t.pc \in {"compose", "send"} => Len(t.sends) = t.i - 1
            /\ t.outcome = "completed" =>
                  Len(t.sends) = Len(t.user_batches)

\* A completed tick whose first batch failed and whose later batch succeeded.
C3_Witness ==
    \E s \in Slots :
        /\ tick[s].pc = "done"
        /\ tick[s].outcome = "completed"
        /\ Len(tick[s].sends) = 3
        /\ ~tick[s].sends[1].ok
        /\ tick[s].sends[2].ok
        /\ ~tick[s].sends[3].ok
        /\ tick[s].total_sent = 10

\* C4: whatever step of a tick raises, the exception is caught inside
\* send_daily_word_emails: a tick never ends by raising to the job runner.
C4_NoExceptionEscapes ==
    \A s \in Slots : ~tick[s].raised

\* C5: a tick that has ended holds no open store session, whichever way it
\* ended, and every open session belongs to a tick that is still running.
C5_SessionReleased ==
    /\ \A s \in Slots : tick[s].pc = "done" => tick[s].db # "open"
    /\ sessions = Cardinality({s \in Slots : tick[s].db = "open"})
    /\ \A s \in Slots : tick[s].db = "open" => InFlight(s)

\* A tick that acquired a session, hit an exception and has ended.
C5_Witness ==
    \E s \in Slots :
        /\ tick[s].pc = "done"
        /\ tick[s].outcome = "error"
        /\ tick[s].db = "closed"
        /\ sessions = 0

\* C6: at most one instance of the daily tick is executing at any time; a
\* trigger that fires during a tick starts no second instance.
C6_OneTickAtATime ==
    Cardinality(Running) <= 1

\* The trigger fired during a tick and the run was skipped.
C6_Witness ==
    /\ skipped
    /\ \E s \in Slots : tick[s].pc = "send" /\ tick[s].i = 2

\* C7: stop() leaves a running tick as it is, the tick can always take its
\* next step, it ends with every batch attempted and its session released,
\* and once the scheduler is stopped no tick starts.
C7_StopKeepsTick ==
    /\ [](\A s \in Slots : InFlight(s) => ENABLED send_daily_word_emails(s))
    /\ [](\A s \in stopSeen :
            tick[s].pc = "done" =>
               /\ tick[s].db # "open"
               /\ tick[s].outcome \in {"completed", "no_words", "no_users",
                                       "error"}
               /\ tick[s].outcome = "completed" =>
                     Len(tick[s].sends) = Len(tick[s].user_batches))
    /\ [][/\ (schedState = "running" /\ schedState' = "stopped")
                => tick' = tick
          /\ schedState = "stopped" =>
                /\ schedState' = "stopped"
                /\ \A s \in Slots :
                      tick'[s].pc = "start" => tick[s].pc = "start"]_vars

\* stop() returned during a tick, and the tick then sent all three batches.
C7_Witness ==
    \E s \in stopSeen :
        /\ schedState = "stopped"
        /\ tick[s].pc = "done"
        /\ tick[s].outcome = "completed"
        /\ Len(tick[s].sends) = 3
        /\ tick[s].db = "closed"

\* C19: when start() fails during start-up the failure is logged and the
\* host still comes up, and when stop() fails during shutdown the failure
\* is logged and the host still goes down: the hooks let no exception
\* pass, and shutdown can always be taken once the host is up.
C19_HooksSwallow ==
    /\ [](app \in {"boot", "up", "down"})
    /\ [](app = "up" => ENABLED shutdown_event)
    /\ [][/\ (app = "boot" /\ app' # app) =>
                /\ app' = "up"
                /\ schedState' # "running" =>
                      /\ "start" \in reported'
                      /\ schedState' = schedState /\ tick' = tick
          /\ (app = "up" /\ app' # app) =>
                /\ app' = "down"
                /\ schedState' # "running"
                /\ schedState # "running" => "stop" \in reported'
          /\ reported' # reported => app' # app]_vars

\* start() failed and the host came up; stop() then failed, the scheduler
\* not running, and the host went down; both failures were logged.
C19_Witness ==
    /\ app = "down"
    /\ schedState = "created"
    /\ reported = {"start", "stop"}

\* C20: the word a tick announces is never published later than the tick's
\* date: with no word published today the fallback takes a word of an
\* earlier date, not one scheduled for a later date.
C20_NoFutureWord ==
    \A s \in Slots :
        (Selected(tick[s]) /\ tick[s].word # NoWord) =>
            words[tick[s].word].date_published <= tick[s].today

\* C22: no step of a tick changes a word or a subscriber, on any path: a
\* tick that ended, however it ended, ran over the tables it started with.
C22_TickReadOnly ==
    [][(tick' # tick \/ sessions' # sessions)
          => (words' = words /\ users' = users)]_vars

\* A tick that fell back to a word of another date, sent it to a batch and
\* closed its session has ended.
C22_Witness ==
    \E s \in Slots :
        /\ tick[s].pc = "done"
        /\ tick[s].outcome = "completed"
        /\ tick[s].total_sent > 0
        /\ tick[s].db = "closed"
        /\ tick[s].word # NoWord
        /\ words[tick[s].word].date_published # tick[s].today

\* ================================================== claims under StoreSpec
\* C8: no two stored words have terms that are equal when case is ignored,
\* in every state reached by create, update, publish, unpublish and delete
\* requests, interleaved in any way.
C8_TermUnique ==
    \A v, w \in DOMAIN words :
        v # w => lower(words[v].term) # lower(words[w].term)

\* A create of "A" that had passed the duplicate check beside a create of
\* "a" was turned down by the unique index.
C8_Witness ==
    \E th \in Threads :
        /\ req[th].op = "create"
        /\ req[th].status = 500
        /\ \E w \in DOMAIN words :
              /\ words[w].term # req[th].data.term
              /\ words[w].term = normalise(req[th].data.term)
              /\ words[w].updated_at > 0

\* C9: a create request whose term equals the term of a stored word when
\* case is ignored is answered with 400 and leaves the words table as it is.
C9_CreateConflict ==
    [][\A th \in Threads :
          (/\ req[th].pc = "idle"
           /\ req'[th].op = "create"
           /\ \E w \in DOMAIN words :
                 lower(words[w].term) = lower(req'[th].data.term))
          => (/\ req'[th].pc = "done"
              /\ req'[th].status = 400
              /\ words' = words)]_vars

\* A create of "A" was answered with 400 while "a" is stored.
C9_Witness ==
    \E th \in Threads :
        /\ req[th].op = "create"
        /\ req[th].pc = "done"
        /\ req[th].status = 400
        /\ \E w \in DOMAIN words :
              /\ words[w].term # req[th].data.term
              /\ lower(words[w].term) = lower(req[th].data.term)

\* C10: an update that renames a word to a term that another word holds is
\* answered with 400, and an update that is not answered with 200 leaves
\* the words table as it is.
C10_UpdateConflict ==
    [][\A th \in Threads :
          /\ (/\ req[th].op = "update"
              /\ req[th].pc = "fields"
              /\ req'[th] # req[th]
              /\ update_data(req[th].data)[req[th].k] = "term"
              /\ req[th].data.term \notin {NullTerm, <<>>}
              /\ TermTaken(words, normalise(req[th].data.term), req[th].id))
             => (/\ req'[th].pc = "done"
                 /\ req'[th].status = 400
                 /\ words' = words)
          /\ (/\ req'[th].op = "update"
              /\ req[th].pc # "done"
              /\ req'[th].pc = "done"
              /\ req'[th].status # 200)
             => words' = words]_vars

\* The row of request r is as the handler's session read it, apart from
\* the columns the handler has set.
Current(ws, r) ==
    /\ r.id \in DOMAIN ws
    /\ \A f \in DOMAIN r.obj : f \notin r.dirty => ws[r.id][f] = r.obj[f]

\* C11: a publish request that names no date sets the word's publication
\* date to the current date, one that names a date sets that date, and an
\* unpublish request sets it to null; each sets the word's modification
\* time to the time the handler read, later than the one it found; the
\* commit changes no other field of the word, no other word and not the
\* set of stored words.  (The row the commit finds is the row the handler
\* read: no other request wrote the word in between.)
C11_PublishUnpublish ==
    [][\A th \in Threads :
          LET r == req[th]
          IN  /\ (/\ r.pc = "idle"
                  /\ req'[th].pc = "commit"
                  /\ req'[th].op \in {"publish", "unpublish"})
                 => LET n == req'[th]
                        want == IF n.op = "unpublish" THEN NoDate
                                ELSE IF n.data.date_published = NoDate
                                     THEN clock
                                     ELSE n.data.date_published
                    IN  /\ n.obj = [words[n.id] EXCEPT
                                       !.date_published = want,
                                       !.updated_at = nreq']
                        /\ nreq' > words[n.id].updated_at
                        /\ n.dirty \subseteq {"date_published", "updated_at"}
                        /\ words' = words
              /\ (/\ r.op \in {"publish", "unpublish"}
                  /\ r.pc = "commit"
                  /\ req'[th].pc = "done"
                  /\ req'[th].status = 200)
                 => /\ DOMAIN words' = DOMAIN words
                    /\ \A w \in DOMAIN words : w # r.id => words'[w] = words[w]
                    /\ words'[r.id].term = words[r.id].term
                    /\ words'[r.id].difficulty = words[r.id].difficulty
                    /\ words'[r.id].updated_at = r.obj.updated_at
                    /\ Current(words, r) => words'[r.id] = r.obj]_vars

\* A word was published for day 2 by a request that named that date, after
\* the word was created, and its term and difficulty are as created.
C11_Witness ==
    \E th \in Threads :
        /\ req[th].op = "publish"
        /\ req[th].pc = "done"
        /\ req[th].status = 200
        /\ req[th].data.date_published = 2
        /\ req[th].id \in DOMAIN words
        /\ words[req[th].id].date_published = 2
        /\ words[req[th].id].updated_at >= 2
        /\ words[req[th].id].difficulty = "beginner"

\* schemas/word_schemas.py:6-10 DifficultyLevel
DifficultyLevel == {"beginner", "intermediate", "advanced", "expert"}

\* C18: in every state reached by create and update requests, updates
\* that supply difficulty as null among them, the difficulty of every
\* stored word is one of beginner, intermediate, advanced, expert.
C18_DifficultyValid ==
    \A w \in DOMAIN words : words[w].difficulty \in DifficultyLevel

\* An update that supplied difficulty as null was turned down by the store
\* and the word is stored with the difficulty it had.
C18_Witness ==
    \E th \in Threads :
        /\ req[th].op = "update"
        /\ req[th].pc = "done"
        /\ req[th].data.difficulty = "null"
        /\ req[th].status = 500
        /\ req[th].id \in DOMAIN words
        /\ words[req[th].id].difficulty = "beginner"

\* ================================================== claims under UserSpec
\* C12: a create request with an address that a stored subscriber holds,
\* and an update request that sets an address that another stored
\* subscriber holds, are answered with 400 and leave the table as it is;
\* in every state reached by create, update and delete requests,
\* interleaved in any way, no two subscribers have the same address.
C12_EmailUnique ==
    /\ [](\A j, k \in 1..Len(users) :
             j # k => /\ users[j].email # users[k].email
                      /\ users[j].id # users[k].id)
    /\ [][\A th \in Threads :
             (/\ ureq[th].pc = "idle"
              /\ ureq'[th].op \in {"create", "update"}
              /\ ureq'[th].op = "update" => ureq'[th].id \in UserIds(users)
              /\ \E k \in 1..Len(users) :
                    /\ users[k].email = ureq'[th].data.email
                    /\ ureq'[th].op = "update" => users[k].id # ureq'[th].id)
             => (/\ ureq'[th].pc = "done"
                 /\ ureq'[th].status = 400
                 /\ users' = users)]_vars

\* Two subscribers are stored and an update of one to the address of the
\* other was answered with 400.
C12_Witness ==
    /\ Len(users) = 2
    /\ \E th \in Threads :
          /\ ureq[th].pc = "done"
          /\ ureq[th].op = "update"
          /\ ureq[th].status = 400
          /\ \E k \in 1..Len(users) :
                users[k].id # ureq[th].id /\ users[k].email = ureq[th].data.email

\* ================================================= claims under QuerySpec
\* The ids of a response, as a set.
Ids(result) == {result[k] : k \in 1..Len(result)}

\* C13: with no other filter, get_words with published_only returns the
\* words whose publication date is not null and only those, with
\* unpublished_only the words whose publication date is null and only
\* those; the two responses have no word in common and together hold
\* every stored word.
C13_PublishedPartition ==
    LET P == [NoFilter EXCEPT !.published_only = TRUE]
        U == [NoFilter EXCEPT !.unpublished_only = TRUE]
        other == IF q.params = P THEN Ids(WordsQuery(words, U, clock))
                 ELSE Ids(WordsQuery(words, P, clock))
    IN  (q.op = "get_words" /\ q.params \in {P, U}) =>
           /\ q.status = 200
           /\ q.params = P =>
                 Ids(q.result) = {w \in DOMAIN words :
                                     words[w].date_published # NoDate}
           /\ q.params = U =>
                 Ids(q.result) = {w \in DOMAIN words :
                                     words[w].date_published = NoDate}
           /\ Ids(q.result) \cap other = {}
           /\ Ids(q.result) \cup other = DOMAIN words

\* A request with unpublished_only on a store that holds a published and
\* an unpublished word was answered with the unpublished one.
C13_Witness ==
    /\ q.op = "get_words"
    /\ q.params = [NoFilter EXCEPT !.unpublished_only = TRUE]
    /\ Len(q.result) = 1
    /\ \E w \in DOMAIN words : words[w].date_published # NoDate

\* The date is a day of the month `month` of the year `year`.
InMonth(d, year, month) ==
    \E day \in 1..31 :
        day <= monthrange(year, month) /\ d = date(year, month, day)

\* The response lists the words published in the month, each once, in
\* ascending order of their publication dates.
MonthlyResponse(year, month) ==
    /\ q.status = 200
    /\ Ids(q.result) = {w \in DOMAIN words :
                           InMonth(words[w].date_published, year, month)}
    /\ \A j, k \in 1..Len(q.result) :
          j < k => /\ q.result[j] # q.result[k]
                   /\ words[q.result[j]].date_published
                         <= words[q.result[k]].date_published

\* C14 as stated: for every year and every month in 1..12,
\* get_monthly_words returns exactly the stored words whose publication
\* date lies in that month, in ascending order of publication date.
C14_MonthlyAnyYear ==
    (q.op = "get_monthly_words" /\ q.month \in 1..12) =>
        MonthlyResponse(q.year, q.month)

\* C14: for every year in 2020..2030 and every month in 1..12,
\* get_monthly_words returns exactly the stored words whose publication
\* date lies in that month (unpublished words excluded), in ascending
\* order of publication date; for any other year or month the request is
\* answered with 400 and no words.
C14_MonthlyWords ==
    q.op = "get_monthly_words" =>
        IF q.month \in 1..12 /\ q.year \in MinYear..MaxYear
        THEN MonthlyResponse(q.year, q.month)
        ELSE q.status = 400 /\ q.result = <<>>

\* The words of February 2020 came in the order of their dates, which is
\* not the order in which they were created.
C14_Witness ==
    /\ q.op = "get_monthly_words"
    /\ q.status = 200
    /\ q.year = MinYear /\ q.month = 2
    /\ q.result = <<2, 1>>
    /\ words[2].date_published < words[1].date_published

\* The first day of the month after `month` of `year`.
NextMonthStart(year, month) ==
    IF month = 12 THEN date(year + 1, 1, 1) ELSE date(year, month + 1, 1)

\* C15: for every year and every month in 1..12 the calendar has one entry
\* per day of the month, in day order; the word_count of an entry is the
\* number of stored words published on its date, has_words is true
\* exactly when word_count > 0, and days_with_words is the number of
\* entries whose has_words is true.
C15_Calendar ==
    (q.op = "get_calendar_stats" /\ q.month \in 1..12) =>
        /\ q.status = 200
        /\ Len(q.calendar)
              = NextMonthStart(q.year, q.month) - date(q.year, q.month, 1)
        /\ q.total_days = Len(q.calendar)
        /\ \A k \in 1..Len(q.calendar) :
              LET e == q.calendar[k]
              IN  /\ e.day = k
                  /\ e.date = date(q.year, q.month, 1) + (k - 1)
                  /\ e.word_count =
                        Cardinality({w \in DOMAIN words :
                                        words[w].date_published = e.date})
                  /\ e.has_words <=> e.word_count > 0
        /\ q.days_with_words =
              Cardinality({k \in 1..Len(q.calendar) : q.calendar[k].has_words})

\* The calendar of February 2020 has 29 entries, two of them with words,
\* the last day among them.
C15_Witness ==
    /\ q.op = "get_calendar_stats"
    /\ q.year = MinYear /\ q.month = 2
    /\ Len(q.calendar) = 29
    /\ q.calendar[29].has_words
    /\ q.days_with_words = 2

\* The row satisfies every filter that the request supplies.
SatisfiesAll(row, p, today) ==
    /\ p.category # NoStr => Contains(row.category, p.category)
    /\ p.difficulty # "none" => row.difficulty = p.difficulty
    /\ p.search # NoStr =>
          \/ Contains(row.term, p.search)
          \/ Contains(row.definition, p.search)
          \/ Contains(row.example, p.search)
    /\ p.published_only => row.date_published # NoDate
    /\ p.unpublished_only => row.date_published = NoDate
    /\ p.published_today => row.date_published = today
    /\ p.date_from # NoDate =>
          row.date_published # NoDate /\ row.date_published >= p.date_from
    /\ p.date_to # NoDate =>
          row.date_published # NoDate /\ row.date_published <= p.date_to

\* C17: for any combination of supplied filters, every word get_words
\* returns satisfies every supplied filter and every stored word that
\* satisfies all of them is returned (first page, limit above the number
\* of words).
C17_FiltersCompose ==
    (q.op = "get_words" /\ q.params.skip = 0) =>
        Ids(q.result) = {w \in DOMAIN words :
                            SatisfiesAll(words[w], q.params, clock)}

\* ================================================== claims under MailSpec
\* The recipients of the call that the server accepted.
Accepted(m) == {k \in 1..Len(m.sent) : m.sent[k] = "accepted"}

\* C16: send_email returns true exactly when at least one recipient of the
\* call was accepted, returns false on every transport error (connection,
\* TLS, authentication, disconnection, refused recipients, closing the
\* connection) and never raises to the caller.
C16_SendResult ==
    /\ ~mail.raised
    /\ mail.pc = "done" =>
          /\ mail.result \in {"true", "false"}
          /\ mail.result = "true" <=> Accepted(mail) # {}
          /\ mail.errors \cap {"connect", "tls", "auth", "quit"} # {}
                => mail.result = "false"

\* ============================================= create_word, one at a time
\* C21: a create request that passes the duplicate check while no other
\* request is being served inserts its word: the normalised term is held
\* by no stored word, terms with surrounding blanks included.
C21_CreateInsertsOrConflict ==
    [][\A th \in Threads :
          (/\ req[th].pc = "idle"
           /\ req'[th].op = "create"
           /\ req'[th].pc = "insert"
           /\ \A r \in Threads \ {th} : req[r].pc \in {"idle", "done"})
          => ~TermTaken(words, normalise(req'[th].data.term), 0)]_vars

====
